---- MODULE Spec2Model ----
(***************************************************************************)
(* A model of mytest/create_pptx.py: main builds one in-memory document    *)
(* by calling seven slide-creation procedures and then saves it once.      *)
(* The document is a sequence of slides; a slide carries the placeholders  *)
(* it inherited from its layout and the shapes the procedures added.       *)
(* Literal texts of the script (Chinese in the source) are written as      *)
(* ASCII strings that name them.                                           *)
(***************************************************************************)
EXTENDS Integers, Sequences, FiniteSets, TLC

\* The largest number of placeholders a layout of the template may carry.
MaxPlaceholders == 2

\* ---------------------------------------------------------------- data

\* main, lines 35-53: the seven calls in program order.
ORDER ==
  << "create_title_slide", "create_content_slide", "create_shapes_slide",
     "create_table_slide", "create_chart_slide", "create_image_slide",
     "create_image_slide_v2" >>

Procs == { ORDER[k] : k \in 1..Len(ORDER) }

\* A paragraph of a text frame, as the library creates it: no text, level 0,
\* no font size, not bold, not italic, no alignment.
EmptyPara ==
  [text |-> "", level |-> 0, size |-> 0, bold |-> FALSE, italic |-> FALSE,
   align |-> "none"]

\* p.text = t on a paragraph.
ParaText(t) == [EmptyPara EXCEPT !.text = t]

\* tf.text = t on a text frame: the frame's paragraphs are replaced by one
\* paragraph holding t.
SetFrameText(t) == << ParaText(t) >>

\* The 40pt bold centred heading paragraph the five blank-layout procedures
\* add to their first text box (lines 138-143 and the like).
Heading(t) ==
  [ParaText(t) EXCEPT !.size = 40, !.bold = TRUE, !.align = "center"]

NoCells == [rc \in {} |-> EmptyPara]

NoChart ==
  [categories |-> << >>, series |-> << >>, has_title |-> FALSE, title |-> ""]

\* A shape of a slide.  Every shape has the same fields; the ones its type
\* does not use stay at their defaults.
Shape(type) ==
  [type |-> type, paras |-> << >>, geom |-> "", fill |-> "", shadow |-> TRUE,
   cells |-> NoCells, chart |-> NoChart, blob |-> << >>]

\* shapes.add_textbox(...): a text box whose frame has one empty paragraph.
TextBox == [Shape("textbox") EXCEPT !.paras = << EmptyPara >>]

\* The placeholders a slide may inherit from a layout of the template:
\* whether there is a title placeholder, how many placeholders there are, and
\* whether placeholder 1 has a text frame.  A title is itself a placeholder,
\* and placeholder 1 exists only if there are two.
Placeholders ==
  { ph \in [hasTitle : BOOLEAN, nph : 0..MaxPlaceholders, hasTF : BOOLEAN] :
      /\ ph.hasTitle => ph.nph >= 1
      /\ ph.hasTF => ph.nph >= 2 }

\* The blank layout (index 6) has no placeholders.
Blank == [hasTitle |-> FALSE, nph |-> 0, hasTF |-> FALSE]

\* slides.add_slide(layout): the new slide, made by procedure `by`.
NewSlide(by, layout, ph) ==
  [by |-> by, layout |-> layout, hasTitle |-> ph.hasTitle, nph |-> ph.nph,
   hasTF |-> ph.hasTF, title |-> "", ph1 |-> << >>, shapes |-> << >>]

\* The title and bullet layouts of the library's default template: a title
\* and a second placeholder with a text frame.
Stock == [hasTitle |-> TRUE, nph |-> 2, hasTF |-> TRUE]

\* The placeholders of the layouts the script uses: 0 (title), 1 (bullets),
\* 6 (blank), under template t: "default" is the library's default template,
\* "bare" one whose layouts have no placeholders, "any" leaves the layouts
\* open.  Nothing reads the text frame of a title-layout placeholder.
LayoutPlaceholders(t, layout) ==
  CASE layout = 6 -> { Blank }
    [] layout # 6 /\ t = "default" -> { Stock }
    [] layout # 6 /\ t = "bare" -> { Blank }
    [] layout = 0 /\ t = "any" ->
         { ph \in Placeholders : ph.hasTF = (ph.nph >= 2) }
    [] layout = 1 /\ t = "any" -> Placeholders

\* Whether an attribute the script probes with getattr or hasattr is there.
HasAttr(t) == IF t = "any" THEN BOOLEAN ELSE { t = "default" }

AddShape(s, sh) == [s EXCEPT !.shapes = Append(@, sh)]

\* tf.add_paragraph() on the text frame of the slide's last shape, then the
\* assignments to the new paragraph.
AddPara(s, p) == [s EXCEPT !.shapes[Len(s.shapes)].paras = Append(@, p)]

\* ---------------------------------------------------------------- state

VARIABLES
  template,      \* the template Presentation() loads
  pc,            \* the statement main or the running procedure is at
  proc,          \* the running procedure, "main" between calls
  called,        \* the procedures main has called, in call order
  slides,        \* prs.slides
  slide,         \* the procedure's local `slide`: its index in slides, 0 unset
  tf,            \* create_content_slide's local tf: "unset", "None", "frame"
  n,             \* which of a run of repeated statement blocks is next
  i,             \* create_table_slide: the header loop's i
  row_idx,       \* create_table_slide: the data loop's row_idx
  col_idx,       \* create_table_slide: the data loop's col_idx
  chart_data,    \* create_chart_slide's chart_data
  chart,         \* create_chart_slide's chart: "unset", "None", "chart"
  img,           \* create_image_slide_v2's bitmap
  img_byte_arr,  \* create_image_slide_v2's byte stream
  file,          \* the slides of the saved document, << >> while none
  saves,         \* how many times prs.save has completed
  printed,       \* whether the success message was printed
  error          \* the exception that ended the run, "none" while none

locals == << slide, tf, n, i, row_idx, col_idx, chart_data, chart, img,
             img_byte_arr >>
outputs == << file, saves, printed >>
vars == << template, pc, proc, called, slides, locals, outputs, error, template >>

NoChartData == [categories |-> << >>, series |-> << >>]
NoStream == [open |-> FALSE, data |-> << >>, pos |-> 0]

\* A procedure's frame before its first statement, and after it is gone.
NoLocals ==
  /\ slide' = 0
  /\ tf' = "unset"
  /\ n' = 0
  /\ i' = 0
  /\ row_idx' = 0
  /\ col_idx' = 0
  /\ chart_data' = NoChartData
  /\ chart' = "unset"
  /\ img' = << >>
  /\ img_byte_arr' = NoStream

InitFrom(templates) ==
  /\ template \in templates
  /\ pc = "start"
  /\ proc = "main"
  /\ called = << >>
  /\ slides = << >>
  /\ slide = 0
  /\ tf = "unset"
  /\ n = 0
  /\ i = 0
  /\ row_idx = 0
  /\ col_idx = 0
  /\ chart_data = NoChartData
  /\ chart = "unset"
  /\ img = << >>
  /\ img_byte_arr = NoStream
  /\ file = << >>
  /\ saves = 0
  /\ printed = FALSE
  /\ error = "none"

Init == InitFrom({"any"})

\* The first statement of each procedure.
Entry(p) ==
  CASE p = "create_title_slide" -> "title_add"
    [] p = "create_content_slide" -> "content_add"
    [] p = "create_shapes_slide" -> "shapes_add"
    [] p = "create_table_slide" -> "table_add"
    [] p = "create_chart_slide" -> "chart_add"
    [] p = "create_image_slide" -> "image_add"
    [] p = "create_image_slide_v2" -> "v2_add"

\* The layout each procedure passes to add_slide.
LayoutOf(p) ==
  CASE p = "create_title_slide" -> 0
    [] p = "create_content_slide" -> 1
    [] OTHER -> 6

\* ---------------------------------------------------------------- main

\* prs = Presentation()
Construct ==
  /\ pc = "start"
  /\ pc' = "main"
  /\ slides' = << >>
  /\ UNCHANGED << proc, called, locals, outputs, error, template >>

\* A main that makes its calls in the reverse order.
NextCallReversed(done) == ORDER[Len(ORDER) - Len(done)]

\* The procedure main calls after having called `done`: the next of ORDER.
NextCall(done) == ORDER[Len(done) + 1]

\* create_xxx_slide(prs): control enters procedure p with a fresh frame.
CallProc(p) ==
  /\ pc = "main"
  /\ proc' = p
  /\ called' = Append(called, p)
  /\ pc' = Entry(p)
  /\ UNCHANGED << slides, locals, outputs, error, template >>

\* The next call of main.
Call ==
  /\ Len(called) < Len(ORDER)
  /\ CallProc(NextCall(called))

\* The seven calls of main in another order: any procedure not yet called.
CallAny ==
  \E p \in Procs \ { called[k] : k \in 1..Len(called) } : CallProc(p)

\* The end of a procedure: its frame is gone, nothing is returned.
Return ==
  /\ pc = "ret"
  /\ pc' = "main"
  /\ proc' = "main"
  /\ NoLocals
  /\ UNCHANGED << called, slides, outputs, error, template >>

\* Whether main has reached prs.save.
AtSave == pc = "main" /\ Len(called) = Len(ORDER)

\* prs.save(output_file)
Save ==
  /\ AtSave
  /\ file' = slides
  /\ saves' = saves + 1
  /\ pc' = "print"
  /\ UNCHANGED << proc, called, slides, locals, printed, error, template >>

\* print(...)
PrintDone ==
  /\ pc = "print"
  /\ printed' = TRUE
  /\ pc' = "done"
  /\ UNCHANGED << proc, called, slides, locals, file, saves, error,
                  template >>

\* An add_slide that is reached only if the layout has a title placeholder.
AddSlideIfTitled(label, next) ==
  /\ pc = label
  /\ \E ph \in LayoutPlaceholders(template, LayoutOf(proc)) :
       slides' = IF ph.hasTitle
                   THEN Append(slides, NewSlide(proc, LayoutOf(proc), ph))
                   ELSE slides
  /\ slide' = Len(slides')
  /\ pc' = next
  /\ UNCHANGED << proc, called, tf, n, i, row_idx, col_idx, chart_data, chart,
                  img, img_byte_arr, outputs, error, template >>

\* slide = prs.slides.add_slide(prs.slide_layouts[k]), the first statement of
\* every procedure: the slide is appended and `slide` refers to it.
AddSlide(label, next) ==
  /\ pc = label
  /\ \E ph \in LayoutPlaceholders(template, LayoutOf(proc)) :
       slides' = Append(slides, NewSlide(proc, LayoutOf(proc), ph))
  /\ slide' = Len(slides) + 1
  /\ pc' = next
  /\ UNCHANGED << proc, called, tf, n, i, row_idx, col_idx, chart_data, chart,
                  img, img_byte_arr, outputs, error, template >>

\* A statement that changes the first slide of the document instead.
OnSlideFirst(s, next) ==
  /\ slides' = [slides EXCEPT ![1] = s]
  /\ pc' = next

\* A statement that changes the procedure's slide to s and goes to `next`.
OnSlide(s, next) ==
  /\ slides' = [slides EXCEPT ![slide] = s]
  /\ pc' = next

\* A heading that carries the number of slides before its own.
TitleBoxNumbered(label, text, next) ==
  /\ pc = label
  /\ OnSlide(AddPara(AddShape(slides[slide], TextBox),
                     [Heading(text) EXCEPT !.level = Len(slides) - 1]), next)
  /\ UNCHANGED << proc, called, locals, outputs, error, template >>

\* title = slide.shapes.add_textbox(...); p = title.text_frame.add_paragraph()
\* and the heading's text, 40pt, bold, centred.
TitleBox(label, text, next) ==
  /\ pc = label
  /\ OnSlide(AddPara(AddShape(slides[slide], TextBox), Heading(text)), next)
  /\ UNCHANGED << proc, called, locals, outputs, error, template >>

\* ---------------------------------------------------------------- create_title_slide

\* The exception a statement raises: the stack unwinds through main.
Fail(kind) ==
  /\ error' = kind
  /\ pc' = "raised"
  /\ NoLocals
  /\ UNCHANGED << proc, called, slides, outputs, template >>

\* if title is not None:
HasTitle(s) == s.hasTitle

\* A guard that takes one placeholder for enough.
HasSecondOffByOne(s) == s.nph > 0

\* if len(slide.placeholders) > 1:
HasSecond(s) == s.nph > 1

\* title.text = text, which fails on None; skipped if the guard is false.
GuardedTitle(text, next) ==
  /\ IF HasTitle(slides[slide])
       THEN IF slides[slide].hasTitle
              THEN /\ OnSlide([slides[slide] EXCEPT !.title = text], next)
                   /\ UNCHANGED << locals, error >>
              ELSE Fail("AttributeError")
       ELSE /\ pc' = next
            /\ UNCHANGED << slides, locals, error >>
  /\ UNCHANGED << proc, called, outputs, template >>

title_add == AddSlide("title_add", "title_title")

\* title = slide.shapes.title; if title is not None: title.text = ...
title_title ==
  /\ pc = "title_title"
  /\ GuardedTitle("Creating PowerPoint with Python", "title_sub")

\* if len(slide.placeholders) > 1: subtitle = slide.placeholders[1];
\*     subtitle.text = ...      placeholders[1] fails if there is none.
title_sub ==
  /\ pc = "title_sub"
  /\ IF HasSecond(slides[slide])
       THEN IF slides[slide].nph > 1
              THEN /\ OnSlide([slides[slide] EXCEPT !.ph1 =
                                 SetFrameText("Created on <date> / python-pptx sample")],
                              "ret")
                   /\ UNCHANGED << locals, error >>
              ELSE Fail("KeyError")
       ELSE /\ pc' = "ret"
            /\ UNCHANGED << slides, locals, error >>
  /\ UNCHANGED << proc, called, outputs, template >>

\* ---------------------------------------------------------------- create_content_slide

BULLETS ==
  << "Create new PowerPoint presentations", "Add and format text content",
     "Add shapes and charts", "Add tables and pictures",
     "Read and modify existing presentations" >>

content_add == AddSlide("content_add", "content_title")

content_title ==
  /\ pc = "content_title"
  /\ GuardedTitle("Main features of Python-PPTX", "content_tf")

\* tf = None; if len(slide.placeholders) > 1:
\*     content = slide.placeholders[1]
\*     tf = getattr(content, 'text_frame', None)
content_tf ==
  /\ pc = "content_tf"
  /\ IF HasSecond(slides[slide])
       THEN IF slides[slide].nph > 1
              THEN /\ tf' = IF slides[slide].hasTF THEN "frame" ELSE "None"
                   /\ pc' = "content_text"
                   /\ UNCHANGED << slides, slide, n, i, row_idx, col_idx,
                                   chart_data, chart, img, img_byte_arr, error >>
              ELSE Fail("KeyError")
       ELSE /\ tf' = "None"
            /\ pc' = "content_text"
            /\ UNCHANGED << slides, slide, n, i, row_idx, col_idx, chart_data,
                            chart, img, img_byte_arr, error >>
  /\ UNCHANGED << proc, called, outputs, template >>

\* if tf is not None:
HasFrame(t) == t # "None"

\* if tf is not None: tf.text = ...
content_text ==
  /\ pc = "content_text"
  /\ IF HasFrame(tf)
       THEN IF tf = "frame"
              THEN /\ OnSlide([slides[slide] EXCEPT !.ph1 =
                                 SetFrameText("The Python-PPTX library can:")],
                              "content_bullet")
                   /\ n' = 1
                   /\ UNCHANGED << slide, tf, i, row_idx, col_idx, chart_data,
                                   chart, img, img_byte_arr, error >>
              ELSE Fail("AttributeError")
       ELSE /\ pc' = "ret"
            /\ UNCHANGED << slides, locals, error >>
  /\ UNCHANGED << proc, called, outputs, template >>

\* p = tf.add_paragraph(); p.text = ...; p.level = 1   (five times)
content_bullet ==
  /\ pc = "content_bullet"
  /\ OnSlide([slides[slide] EXCEPT
                !.ph1 = Append(@, [ParaText(BULLETS[n]) EXCEPT !.level = 1])],
             IF n < Len(BULLETS) THEN "content_bullet" ELSE "ret")
  /\ n' = n + 1
  /\ UNCHANGED << proc, called, slide, tf, i, row_idx, col_idx, chart_data,
                  chart, img, img_byte_arr, outputs, error, template >>

\* ---------------------------------------------------------------- create_shapes_slide

\* The four add_shape blocks, lines 146-169 (the triangle is commented out):
\* the shape type, its solid fill colour, and whether its shadow is still
\* inherited.
AUTOSHAPES ==
  << [geom |-> "RECTANGLE", fill |-> "FF0000", shadow |-> FALSE],
     [geom |-> "OVAL", fill |-> "00FF00", shadow |-> TRUE],
     [geom |-> "STAR_5_POINT", fill |-> "FFFF00", shadow |-> TRUE],
     [geom |-> "HEART", fill |-> "FF00FF", shadow |-> TRUE] >>

AutoShape(a) ==
  [Shape("autoshape") EXCEPT !.geom = a.geom, !.fill = a.fill,
                             !.shadow = a.shadow]

shapes_add == AddSlide("shapes_add", "shapes_title")

shapes_title == TitleBox("shapes_title", "Shapes demo", "shapes_shape")

\* shape = slide.shapes.add_shape(...); shape.fill.solid(); ...
shapes_shape ==
  /\ pc = "shapes_shape"
  /\ OnSlide(AddShape(slides[slide], AutoShape(AUTOSHAPES[n + 1])),
             IF n + 1 < Len(AUTOSHAPES) THEN "shapes_shape" ELSE "ret")
  /\ n' = n + 1
  /\ UNCHANGED << proc, called, slide, tf, i, row_idx, col_idx, chart_data,
                  chart, img, img_byte_arr, outputs, error, template >>

\* ---------------------------------------------------------------- create_table_slide

\* A table one row short of the data.
rows_short == 4 - 1

rows == 4
cols == 3

headers == << "Product", "Quarterly sales", "Annual growth" >>

data ==
  << << "Product A", "10,000", "+15%" >>,
     << "Product B", "8,500", "+10%" >>,
     << "Product C", "12,750", "+20%" >> >>

\* A cell of a new table; writes counts the assignments to its text.
EmptyCell == [text |-> "", bold |-> FALSE, size |-> 0, writes |-> 0]

\* slide.shapes.add_table(rows, cols, ...): a table shape of rows x cols cells.
Table(nrows, ncols) ==
  [Shape("table") EXCEPT
     !.cells = [rc \in (0..(nrows - 1)) \X (0..(ncols - 1)) |-> EmptyCell]]

\* table.cell(r, c) exists.
InTable(s, r, c) == << r, c >> \in DOMAIN s.shapes[Len(s.shapes)].cells

\* cell.text = t on table.cell(r, c) of the slide's table, its last shape.
SetCellText(s, r, c, t) ==
  [s EXCEPT !.shapes[Len(s.shapes)].cells[<< r, c >>] =
              [@ EXCEPT !.text = t, !.writes = @ + 1]]

\* cell.text_frame.paragraphs[0].font.bold = True; ....font.size = Pt(14)
SetCellHeaderFont(s, r, c) ==
  [s EXCEPT !.shapes[Len(s.shapes)].cells[<< r, c >>] =
              [@ EXCEPT !.bold = TRUE, !.size = 14]]

table_add == AddSlide("table_add", "table_title")

table_title == TitleBox("table_title", "Table demo", "table_table")

\* table = slide.shapes.add_table(rows, cols, left, top, width, height).table
table_table ==
  /\ pc = "table_table"
  /\ OnSlide(AddShape(slides[slide], Table(rows, cols)),
             IF Len(headers) > 0 THEN "table_header" ELSE "table_data")
  /\ UNCHANGED << proc, called, locals, outputs, error, template >>

\* for i, header in enumerate(headers): one pass of the loop body.
table_header ==
  /\ pc = "table_header"
  /\ IF InTable(slides[slide], 0, i)
       THEN /\ OnSlide(SetCellHeaderFont(
                         SetCellText(slides[slide], 0, i, headers[i + 1]), 0, i),
                       IF i + 1 < Len(headers) THEN "table_header"
                                               ELSE "table_data")
            /\ i' = i + 1
            /\ UNCHANGED << proc, called, slide, tf, n, row_idx, col_idx,
                            chart_data, chart, img, img_byte_arr, outputs,
                            error, template >>
       ELSE Fail("IndexError")

\* for row_idx, row_data in enumerate(data):
\*     for col_idx, cell_text in enumerate(row_data): one pass of the body.
table_data ==
  /\ pc = "table_data"
  /\ IF InTable(slides[slide], row_idx + 1, col_idx)
       THEN /\ OnSlide(SetCellText(slides[slide], row_idx + 1, col_idx,
                                   data[row_idx + 1][col_idx + 1]),
                       IF col_idx + 1 < Len(data[row_idx + 1])
                            \/ row_idx + 1 < Len(data)
                         THEN "table_data" ELSE "ret")
            /\ IF col_idx + 1 < Len(data[row_idx + 1])
                 THEN col_idx' = col_idx + 1 /\ row_idx' = row_idx
                 ELSE col_idx' = 0 /\ row_idx' = row_idx + 1
            /\ UNCHANGED << proc, called, slide, tf, n, i, chart_data, chart,
                            img, img_byte_arr, outputs, error, template >>
       ELSE Fail("IndexError")

\* ---------------------------------------------------------------- create_chart_slide

categories == << "Q1", "Q2", "Q3", "Q4" >>

\* A second series one value short of the categories.
SERIES_short ==
  << [name |-> "2024", values |-> << 85, 102, 125, 98 >>],
     [name |-> "2025", values |-> << 102, 115, 138 >>] >>

\* The two add_series calls, lines 241-242; values in tenths.
SERIES ==
  << [name |-> "2024", values |-> << 85, 102, 125, 98 >>],
     [name |-> "2025", values |-> << 102, 115, 138, 112 >>] >>

chart_add == AddSlide("chart_add", "chart_title")

chart_title == TitleBox("chart_title", "Chart demo", "chart_new")

\* chart_data = CategoryChartData()
chart_new ==
  /\ pc = "chart_new"
  /\ chart_data' = NoChartData
  /\ pc' = "chart_categories"
  /\ UNCHANGED << proc, called, slides, slide, tf, n, i, row_idx, col_idx,
                  chart, img, img_byte_arr, outputs, error, template >>

\* chart_data.categories = [...]
chart_categories ==
  /\ pc = "chart_categories"
  /\ chart_data' = [chart_data EXCEPT !.categories = categories]
  /\ pc' = "chart_series"
  /\ UNCHANGED << proc, called, slides, slide, tf, n, i, row_idx, col_idx,
                  chart, img, img_byte_arr, outputs, error, template >>

\* chart_data_any.add_series(name, values)   (twice)
chart_series ==
  /\ pc = "chart_series"
  /\ chart_data' = [chart_data EXCEPT !.series = Append(@, SERIES[n + 1])]
  /\ n' = n + 1
  /\ pc' = IF n + 1 < Len(SERIES) THEN "chart_series" ELSE "chart_shape"
  /\ UNCHANGED << proc, called, slides, slide, tf, i, row_idx, col_idx, chart,
                  img, img_byte_arr, outputs, error, template >>

\* The chart shape add_chart makes of the chart data it is given.
ChartShape(cd) ==
  [Shape("chart") EXCEPT !.chart.categories = cd.categories,
                         !.chart.series = cd.series]

\* shape = slide.shapes.add_chart(COLUMN_CLUSTERED, x, y, cx, cy, chart_data)
\* chart = getattr(shape, 'chart', None): the library has the attribute or not.
chart_shape ==
  /\ pc = "chart_shape"
  /\ OnSlide(AddShape(slides[slide], ChartShape(chart_data)), "chart_has_title")
  /\ \E has_attr \in HasAttr(template) :
       chart' = IF has_attr THEN "chart" ELSE "None"
  /\ UNCHANGED << proc, called, slide, tf, n, i, row_idx, col_idx, chart_data,
                  img, img_byte_arr, outputs, error, template >>

\* chart.has_title = True on the slide's chart, its last shape.
SetHasTitle(s) == [s EXCEPT !.shapes[Len(s.shapes)].chart.has_title = TRUE]

\* chart.chart_title.text_frame.text = t
SetChartTitle(s, t) == [s EXCEPT !.shapes[Len(s.shapes)].chart.title = t]

\* if chart is not None and hasattr(chart, 'has_title'): chart.has_title = True
chart_has_title ==
  /\ pc = "chart_has_title"
  /\ \E has_attr \in HasAttr(template) :
       IF chart # "None" /\ has_attr
         THEN OnSlide(SetHasTitle(slides[slide]), "chart_text")
         ELSE pc' = "ret" /\ UNCHANGED slides
  /\ UNCHANGED << proc, called, locals, outputs, error, template >>

\* if hasattr(chart, 'chart_title') and hasattr(chart.chart_title, 'text_frame'):
\*     chart.chart_title.text_frame.text = ...
chart_text ==
  /\ pc = "chart_text"
  /\ \E has_attr \in HasAttr(template) :
       IF has_attr
         THEN OnSlide(SetChartTitle(slides[slide], "Quarterly sales compared"),
                      "ret")
         ELSE pc' = "ret" /\ UNCHANGED slides
  /\ UNCHANGED << proc, called, locals, outputs, error, template >>

\* ---------------------------------------------------------------- create_image_slide

IMAGE_PARAS ==
  << [ParaText("Use slide.shapes.add_picture() to add a picture")
        EXCEPT !.size = 20, !.align = "center"],
     [ParaText("Position and size of the picture can be given")
        EXCEPT !.size = 16, !.align = "center"] >>

image_add == AddSlide("image_add", "image_title")

image_title == TitleBox("image_title", "Picture example", "image_note")

\* The note followed by the add_picture call of lines 285-287, were it code.
image_note_and_picture ==
  /\ pc = "image_note"
  /\ OnSlide(AddShape(AddShape(slides[slide],
                               [TextBox EXCEPT !.paras =
                                  << [ParaText("Note: adding a picture needs a picture file")
                                        EXCEPT !.italic = TRUE] >>]),
                      Shape("picture")),
             "image_box")
  /\ UNCHANGED << proc, called, locals, outputs, error, template >>

\* textbox = slide.shapes.add_textbox(...); tf.text = ...;
\* tf.paragraphs[0].font.italic = True.  The add_picture call that follows in
\* the source is inside a string literal and never runs.
image_note ==
  /\ pc = "image_note"
  /\ OnSlide(AddShape(slides[slide],
                      [TextBox EXCEPT !.paras =
                         << [ParaText("Note: adding a picture needs a picture file")
                               EXCEPT !.italic = TRUE] >>]),
             "image_box")
  /\ UNCHANGED << proc, called, locals, outputs, error, template >>

\* textbox = slide.shapes.add_textbox(...)
image_box ==
  /\ pc = "image_box"
  /\ OnSlide(AddShape(slides[slide], TextBox), "image_para")
  /\ UNCHANGED << proc, called, locals, outputs, error, template >>

\* p = tf.add_paragraph(); p.text = ...; p.font.size = ...   (twice)
image_para ==
  /\ pc = "image_para"
  /\ OnSlide(AddPara(slides[slide], IMAGE_PARAS[n + 1]),
             IF n + 1 < Len(IMAGE_PARAS) THEN "image_para" ELSE "ret")
  /\ n' = n + 1
  /\ UNCHANGED << proc, called, slide, tf, i, row_idx, col_idx, chart_data,
                  chart, img, img_byte_arr, outputs, error, template >>

\* ---------------------------------------------------------------- create_image_slide_v2

\* The bitmap after Image.new and the three drawing calls, lines 320-344.
BITMAP ==
  << "white 500x300", "rectangle blue 5", "rectangle lightblue darkblue 2",
     "text black mm" >>

\* img.save(stream, format='PNG') writes: the signature, the image, the end
\* chunk.
EncodePNG(bitmap) == << "PNG signature" >> \o bitmap \o << "IEND" >>

\* Whether bytes are an image add_picture can identify.
IsImage(bytes) == Len(bytes) >= 2 /\ bytes[1] = "PNG signature"

\* stream.write(bytes): bytes go in at the position, which moves past them.
StreamWrite(st, bytes) ==
  [st EXCEPT
     !.data = SubSeq(st.data, 1, st.pos) \o bytes
                \o SubSeq(st.data, st.pos + Len(bytes) + 1, Len(st.data)),
     !.pos = st.pos + Len(bytes)]

\* A rewind that is missing.
StreamNoRewind(st) == st

\* stream.seek(0)
StreamRewind(st) == [st EXCEPT !.pos = 0]

\* stream.read(): what lies between the position and the end.
StreamRead(st) == SubSeq(st.data, st.pos + 1, Len(st.data))

v2_add == AddSlide("v2_add", "v2_title")

v2_title == TitleBox("v2_title", "In-memory picture example", "v2_draw")

\* img = Image.new(...); draw = ImageDraw.Draw(img); draw.rectangle(...) ...
v2_draw ==
  /\ pc = "v2_draw"
  /\ img' = BITMAP
  /\ pc' = "v2_stream"
  /\ UNCHANGED << proc, called, slides, slide, tf, n, i, row_idx, col_idx,
                  chart_data, chart, img_byte_arr, outputs, error, template >>

\* img_byte_arr = io.BytesIO()
v2_stream ==
  /\ pc = "v2_stream"
  /\ img_byte_arr' = [open |-> TRUE, data |-> << >>, pos |-> 0]
  /\ pc' = "v2_save"
  /\ UNCHANGED << proc, called, slides, slide, tf, n, i, row_idx, col_idx,
                  chart_data, chart, img, outputs, error, template >>

\* img.save(img_byte_arr, format='PNG')
v2_save ==
  /\ pc = "v2_save"
  /\ img_byte_arr' = StreamWrite(img_byte_arr, EncodePNG(img))
  /\ pc' = "v2_seek"
  /\ UNCHANGED << proc, called, slides, slide, tf, n, i, row_idx, col_idx,
                  chart_data, chart, img, outputs, error, template >>

\* img_byte_arr.seek(0)
v2_seek ==
  /\ pc = "v2_seek"
  /\ img_byte_arr' = StreamRewind(img_byte_arr)
  /\ pc' = "v2_picture"
  /\ UNCHANGED << proc, called, slides, slide, tf, n, i, row_idx, col_idx,
                  chart_data, chart, img, outputs, error, template >>

\* slide.shapes.add_picture(img_byte_arr, ...): the stream is read to its end
\* and what was read becomes the picture; bytes that are no image are refused.
v2_picture ==
  /\ pc = "v2_picture"
  /\ IF IsImage(StreamRead(img_byte_arr))
       THEN /\ OnSlide(AddShape(slides[slide],
                                [Shape("picture") EXCEPT
                                   !.blob = StreamRead(img_byte_arr)]),
                       "v2_text")
            /\ img_byte_arr' = [img_byte_arr EXCEPT !.pos = Len(img_byte_arr.data)]
            /\ UNCHANGED << proc, called, slide, tf, n, i, row_idx, col_idx,
                            chart_data, chart, img, outputs, error, template >>
       ELSE Fail("UnidentifiedImageError")

\* textbox = slide.shapes.add_textbox(...); p = tf.add_paragraph(); ...
v2_text ==
  /\ pc = "v2_text"
  /\ OnSlide(AddPara(AddShape(slides[slide], TextBox),
                     [ParaText("Picture made in memory with BytesIO and PIL")
                        EXCEPT !.size = 16, !.align = "center"]),
             "ret")
  /\ UNCHANGED << proc, called, locals, outputs, error, template >>

\* ---------------------------------------------------------------- exceptions

\* The statements at which a library call may raise: those of the seven
\* procedures, and prs.save.
CanRaise == (proc \in Procs /\ pc # "ret") \/ AtSave

\* A main that catches the exception of a procedure and goes on to the next.
RaiseSwallowed ==
  /\ proc \in Procs
  /\ pc # "ret"
  /\ error' = "library"
  /\ pc' = "ret"
  /\ UNCHANGED << proc, called, slides, locals, outputs, template >>

\* A library call raises.  main has no try statement: the exception
\* propagates, and the run ends where it is.
Raise ==
  /\ CanRaise
  /\ Fail("library")

\* ---------------------------------------------------------------- the program

Step ==
  \/ title_add \/ title_title \/ title_sub
  \/ content_add \/ content_title \/ content_tf \/ content_text
  \/ content_bullet
  \/ shapes_add \/ shapes_title \/ shapes_shape
  \/ table_add \/ table_title \/ table_table \/ table_header \/ table_data
  \/ chart_add \/ chart_title \/ chart_new \/ chart_categories
  \/ chart_series \/ chart_shape \/ chart_has_title \/ chart_text
  \/ image_add \/ image_title \/ image_note \/ image_box \/ image_para
  \/ v2_add \/ v2_title \/ v2_draw \/ v2_stream \/ v2_save \/ v2_seek
  \/ v2_picture \/ v2_text

Next ==
  \/ Construct
  \/ Call
  \/ Step
  \/ Return
  \/ Save
  \/ PrintDone
  \/ Raise

Spec == Init /\ [][Next]_vars

\* main with its seven calls permuted.
NextPerm ==
  \/ Construct
  \/ CallAny
  \/ Step
  \/ Return
  \/ Save
  \/ PrintDone

InitPerm == InitFrom({"default", "bare"})

SpecPerm == InitPerm /\ [][NextPerm]_vars

\* ---------------------------------------------------------------- properties

\* The procedure's first statement has not run yet.
AtEntry == proc \in Procs /\ pc = Entry(proc)

FullTable ==
  [Shape("table") EXCEPT
     !.cells = [rc \in (0..3) \X (0..2) |->
                  IF rc[1] = 0
                    THEN [text |-> headers[rc[2] + 1], bold |-> TRUE,
                          size |-> 14, writes |-> 1]
                    ELSE [text |-> data[rc[1]][rc[2] + 1], bold |-> FALSE,
                          size |-> 0, writes |-> 1]]]

HeadingBox(text) == [TextBox EXCEPT !.paras = << EmptyPara, Heading(text) >>]

\* The slide procedure p leaves when it is called on an empty document under
\* template t ("default" or "bare").
SoloSlide(p, t) ==
  LET full == t = "default"
      base == NewSlide(p, LayoutOf(p), IF LayoutOf(p) = 6 \/ ~full
                                         THEN Blank ELSE Stock)
  IN CASE p = "create_title_slide" ->
            IF full
              THEN [base EXCEPT
                      !.title = "Creating PowerPoint with Python",
                      !.ph1 = << ParaText("Created on <date> / python-pptx sample") >>]
              ELSE base
       [] p = "create_content_slide" ->
            IF full
              THEN [base EXCEPT
                      !.title = "Main features of Python-PPTX",
                      !.ph1 = << ParaText("The Python-PPTX library can:") >>
                                \o [k \in 1..5 |->
                                      [ParaText(BULLETS[k]) EXCEPT !.level = 1]]]
              ELSE base
       [] p = "create_shapes_slide" ->
            [base EXCEPT
               !.shapes = << HeadingBox("Shapes demo") >>
                            \o [k \in 1..4 |-> AutoShape(AUTOSHAPES[k])]]
       [] p = "create_table_slide" ->
            [base EXCEPT !.shapes = << HeadingBox("Table demo"), FullTable >>]
       [] p = "create_chart_slide" ->
            [base EXCEPT
               !.shapes =
                  << HeadingBox("Chart demo"),
                     [Shape("chart") EXCEPT
                        !.chart = [categories |-> categories,
                                   series |-> SERIES,
                                   has_title |-> full,
                                   title |-> IF full
                                               THEN "Quarterly sales compared"
                                               ELSE ""]] >>]
       [] p = "create_image_slide" ->
            [base EXCEPT
               !.shapes =
                  << HeadingBox("Picture example"),
                     [TextBox EXCEPT !.paras =
                        << [ParaText("Note: adding a picture needs a picture file")
                              EXCEPT !.italic = TRUE] >>],
                     [TextBox EXCEPT !.paras = << EmptyPara >> \o IMAGE_PARAS] >>]
       [] p = "create_image_slide_v2" ->
            [base EXCEPT
               !.shapes =
                  << HeadingBox("In-memory picture example"),
                     [Shape("picture") EXCEPT !.blob = EncodePNG(BITMAP)],
                     [TextBox EXCEPT !.paras =
                        << EmptyPara,
                           [ParaText("Picture made in memory with BytesIO and PIL")
                              EXCEPT !.size = 16, !.align = "center"] >>] >>]

\* The procedure that added slide k has returned.
Finished(k) == k < Len(slides) \/ pc \in {"main", "print", "done"}

\* C3: with the seven calls in any order, every procedure leaves the slide it
\* leaves when called alone on an empty document, whatever slides the others
\* have added before; the finished document holds these seven slides, only
\* their positions following the order of the calls.
C3_OrderIndependent ==
  /\ \A k \in 1..Len(slides) :
       Finished(k) => slides[k] = SoloSlide(called[k], template)
  /\ pc = "done" =>
       /\ Len(file) = 7
       /\ { file[k] : k \in 1..7 } = { SoloSlide(p, template) : p \in Procs }

\* A run in which the in-memory picture slide was made first and the title
\* slide last has ended.
C3_Witness ==
  /\ pc = "done"
  /\ Len(file) = 7
  /\ file[1].by = "create_image_slide_v2"
  /\ file[4].by = "create_content_slide"
  /\ file[7].by = "create_title_slide"

\* C4: an exception is not recovered from.  If a procedure raises, main has
\* stopped in it: that procedure is the last one called, nothing was saved,
\* the message was not printed, and no step follows an exception (no retry,
\* no later procedure).
C4_RaiseEndsRun ==
  /\ [](error # "none" =>
          /\ pc = "raised"
          /\ proc \in Procs =>
               /\ saves = 0 /\ file = << >> /\ ~printed
               /\ called = SubSeq(ORDER, 1, Len(called))
               /\ called[Len(called)] = proc)
  /\ [][error = "none"]_vars

\* create_chart_slide has raised after its add_slide.
C4_Witness ==
  /\ error = "library"
  /\ pc = "raised"
  /\ proc = "create_chart_slide"
  /\ Len(slides) = 5
  /\ Len(called) = 5
  /\ saves = 0

\* C5: in create_title_slide and create_content_slide the title is written
\* only if the slide has a title shape, placeholder 1 only if the slide has more
\* than one placeholder, the bullets only if that placeholder has a text frame;
\* a false guard skips the writes, no write fails on a missing placeholder,
\* and the slide is in the document all the same.
C5_GuardsTotal ==
  /\ error \notin {"AttributeError", "KeyError"}
  /\ \A k \in 1..Len(slides) :
       LET s == slides[k]
       IN s.by \in {"create_title_slide", "create_content_slide"} =>
            /\ s.title # "" => s.hasTitle
            /\ s.ph1 # << >> => s.nph > 1
            /\ (s.by = "create_content_slide" /\ s.ph1 # << >>) => s.hasTF
            /\ (Finished(k) /\ s.by = "create_content_slide") =>
                 Len(s.ph1) = IF s.nph > 1 /\ s.hasTF THEN 6 ELSE 0
  /\ (pc = "main" /\ Len(called) >= 1) => slides[1].by = "create_title_slide"
  /\ (pc = "main" /\ Len(called) >= 2) => slides[2].by = "create_content_slide"

\* Both procedures have returned without an error, the title slide having one
\* placeholder that is no title, the bullet slide a title and a second
\* placeholder without a text frame.
C5_Witness ==
  /\ pc = "main"
  /\ Len(called) = 2
  /\ error = "none"
  /\ ~slides[1].hasTitle /\ slides[1].nph = 1
  /\ slides[1].title = "" /\ slides[1].ph1 = << >>
  /\ slides[2].hasTitle /\ slides[2].nph = 2 /\ ~slides[2].hasTF
  /\ slides[2].title # "" /\ slides[2].ph1 = << >>

\* The number of shapes of type t on slide s.
Count(s, t) == Cardinality({ j \in 1..Len(s.shapes) : s.shapes[j].type = t })

\* C6: the slide of create_image_slide holds no picture, and three text boxes
\* once finished; the slide of create_image_slide_v2 holds one picture once
\* finished; no other slide holds a picture, so the saved document holds one.
C6_OnePicture ==
  /\ \A k \in 1..Len(slides) :
       LET s == slides[k]
       IN /\ s.by # "create_image_slide_v2" => Count(s, "picture") = 0
          /\ s.by = "create_image_slide_v2" => Count(s, "picture") <= 1
          /\ (Finished(k) /\ s.by = "create_image_slide") =>
               Len(s.shapes) = 3 /\ Count(s, "textbox") = 3
          /\ (Finished(k) /\ s.by = "create_image_slide_v2") =>
               Count(s, "picture") = 1
  /\ saves = 1 =>
       Cardinality({ kj \in (1..Len(file)) \X (1..3) :
                       /\ kj[2] <= Len(file[kj[1]].shapes)
                       /\ file[kj[1]].shapes[kj[2]].type = "picture" }) = 1

\* The document was saved with the note slide sixth and the picture slide
\* seventh.
C6_Witness ==
  /\ saves = 1
  /\ Count(file[6], "picture") = 0
  /\ file[6].shapes[2].paras[1].italic
  /\ Count(file[7], "picture") = 1

\* C7: the byte stream is created empty, then holds the encoded bitmap with the
\* position at its end, then is rewound; when it is passed to add_picture it is
\* not empty and its position is 0, the picture is the whole encoded bitmap,
\* and the stream's content does not change after the rewind.
C7_StreamRewound ==
  /\ pc = "v2_save" => img_byte_arr = [open |-> TRUE, data |-> << >>, pos |-> 0]
  /\ pc = "v2_seek" =>
       /\ img_byte_arr.data = EncodePNG(img)
       /\ img_byte_arr.pos = Len(img_byte_arr.data)
  /\ pc = "v2_picture" =>
       /\ img_byte_arr.open
       /\ img_byte_arr.data # << >>
       /\ img_byte_arr.data = EncodePNG(img)
       /\ img_byte_arr.pos = 0
  /\ (proc = "create_image_slide_v2" /\ pc \in {"v2_text", "ret"}) =>
       /\ img_byte_arr.data = EncodePNG(img)
       /\ slides[slide].shapes[2].type = "picture"
       /\ slides[slide].shapes[2].blob = img_byte_arr.data
  /\ error # "UnidentifiedImageError"

\* The picture has just been embedded from the stream.
C7_Witness ==
  /\ pc = "v2_text"
  /\ img_byte_arr.pos = 6
  /\ slides[slide].shapes[2].blob = EncodePNG(BITMAP)

\* C8: the table has 4 rows and 3 columns, every cell access is in bounds, no
\* cell is written twice, bold and 14pt are on row 0 only, and the finished
\* table has the headers in row 0 and data tuple r in row r + 1, every cell
\* written exactly once.
C8_TableFilled ==
  /\ error # "IndexError"
  /\ pc = "table_header" => i \in 0..2
  /\ pc = "table_data" => (row_idx + 1 \in 0..3 /\ col_idx \in 0..2)
  /\ \A k \in 1..Len(slides) :
       LET s == slides[k]
       IN (s.by = "create_table_slide" /\ Len(s.shapes) >= 2) =>
            /\ DOMAIN s.shapes[2].cells = (0..3) \X (0..2)
            /\ Cardinality(DOMAIN s.shapes[2].cells) = 12
            /\ \A rc \in DOMAIN s.shapes[2].cells :
                 /\ s.shapes[2].cells[rc].writes <= 1
                 /\ (s.shapes[2].cells[rc].bold \/ s.shapes[2].cells[rc].size # 0)
                      => rc[1] = 0
            /\ Finished(k) =>
                 /\ s.shapes[2] = FullTable
                 /\ \A r \in 0..2, c \in 0..2 :
                      s.shapes[2].cells[<< r + 1, c >>].text = data[r + 1][c + 1]

\* create_table_slide is about to return, its table filled.
C8_Witness ==
  /\ pc = "ret"
  /\ proc = "create_table_slide"
  /\ row_idx = 3
  /\ slides[slide].shapes[2].cells[<< 3, 2 >>].writes = 1
  /\ slides[slide].shapes[2].cells[<< 0, 0 >>].bold

\* Chart data with four categories and two series of four values each.
Complete(cd) ==
  /\ Len(cd.categories) = 4
  /\ Len(cd.series) = 2
  /\ \A j \in 1..Len(cd.series) :
       Len(cd.series[j].values) = Len(cd.categories)

\* C9: the chart data passed to add_chart holds four categories and two series
\* of four values each, so does every chart in the document; a chart title is
\* set only on a chart whose has_title is true, and has_title is set only on a
\* chart object that exists.
C9_ChartComplete ==
  /\ pc = "chart_shape" => Complete(chart_data)
  /\ pc = "chart_text" => chart = "chart"
  /\ \A k \in 1..Len(slides) :
       LET s == slides[k]
       IN (s.by = "create_chart_slide" /\ Len(s.shapes) >= 2) =>
            /\ s.shapes[2].type = "chart"
            /\ Complete(s.shapes[2].chart)
            /\ s.shapes[2].chart.title # "" => s.shapes[2].chart.has_title
            /\ (s.shapes[2].chart.has_title /\ proc = s.by /\ error = "none")
                 => chart = "chart"

\* create_chart_slide is about to return with the chart's title set.
C9_Witness ==
  /\ pc = "ret"
  /\ proc = "create_chart_slide"
  /\ chart = "chart"
  /\ slides[slide].shapes[2].chart.has_title
  /\ slides[slide].shapes[2].chart.title = "Quarterly sales compared"
  /\ Len(slides[slide].shapes[2].chart.series[2].values) = 4

\* C10: a step of a procedure changes no slide but the one the procedure has
\* added, the last of the document, and adds at most one slide; between calls
\* no local of a procedure is left, the document being all that is carried
\* from one call to the next.
C10_FrameEffect ==
  /\ [](pc = "main" =>
          /\ slide = 0 /\ tf = "unset" /\ n = 0 /\ i = 0
          /\ row_idx = 0 /\ col_idx = 0
          /\ chart_data = NoChartData /\ chart = "unset"
          /\ img = << >> /\ img_byte_arr = NoStream)
  /\ [][/\ Len(slides') \in {Len(slides), Len(slides) + 1}
        /\ \A k \in 1..Len(slides) :
             slides'[k] # slides[k] =>
               (k = Len(slides) /\ slides[k].by = proc)]_vars

\* create_table_slide is about to return, three slides before its own.
C10_Witness ==
  /\ pc = "ret"
  /\ proc = "create_table_slide"
  /\ Len(slides) = 4
  /\ slides[4].shapes[2] = FullTable
  /\ slides[3].by = "create_shapes_slide"
  /\ Len(slides[3].shapes) = 5

====
